---- MODULE Spec2Model ----
(***************************************************************************)
(* News aggregation of TEST.py (multi-select page) and PAGES/TEST2.py      *)
(* (comma-delimited page): fetch fan-out, URL deduplication, relevance     *)
(* filtering, the view (filter / sort / paginate) and the export buttons.  *)
(*                                                                         *)
(* Text values (title, summary, published, source name, search term) are   *)
(* sequences of code points, so that str.lower(), the substring test `in`  *)
(* and lexicographic ordering are computed as Python computes them.  Links *)
(* and normalized URLs are strings; urlparse is given by its result on the *)
(* links the feeds of the model carry.                                     *)
(***************************************************************************)
EXTENDS Integers, Sequences, FiniteSets, TLC

VARIABLES
    page,               \* the script the session runs: "TEST" or "TEST2"
    pc,                 \* position of the script run
    news_data,          \* st.session_state['news_data']
    stored,             \* 'news_data' in st.session_state
    crawl_time,         \* st.session_state['crawl_time']
    clock,              \* datetime.now(), advanced once per accepted run
    selected_keywords,  \* TEST.py: the multiselect value of the run; TEST2.py: queries
    filter_relevant,    \* checkbox value of the run
    remove_duplicates,  \* checkbox value of the run
    max_results,        \* slider value of the run
    i,                  \* 1-based position of the keyword loop
    all_articles,       \* the list under construction
    seen_urls,          \* the set of keys seen so far
    candidates,         \* history: every article the fetches of the run returned
    fetches,            \* feedparser.parse calls issued in this session
    notice,             \* the last st.warning / st.error / st.success shown
    view,               \* widget values and locals of the view section
    download,           \* what the pressed export button offers
    query_input,        \* TEST2.py: the text of the keyword box at the press
    queries,            \* TEST2.py: the split and stripped queries
    unique_articles,    \* TEST2.py: the de-duplicated list
    seen_links,         \* TEST2.py: the links seen so far
    f_articles,         \* argument of a direct call of filter_relevant_news
    f_result            \* its result

vars == <<page, pc, news_data, stored, crawl_time, clock, selected_keywords,
          filter_relevant, remove_duplicates, max_results, i, all_articles,
          seen_urls, candidates, fetches, notice, view, download,
          query_input, queries, unique_articles, seen_links,
          f_articles, f_result>>

----------------------------------------------------------------------------
\* Bounds of the model.

\* longest feed (feed.entries) a fetch returns
MaxEntries == 2
\* feedparser.parse calls in one session
MaxFetches == 2
\* longest list passed to a direct call of filter_relevant_news
MaxArticles == 2

----------------------------------------------------------------------------
\* Text helpers: Python str operations on sequences of code points.

\* str.lower() on one code point: 'A' (65) becomes 'a' (97)
LowerChar(c) == IF c >= 65 /\ c <= 90 THEN c + 32 ELSE c

\* str.lower()
Lower(s) == [k \in 1..Len(s) |-> LowerChar(s[k])]

\* needle in hay (Python substring test; the empty needle is in every text)
Contains(needle, hay) ==
    \E k \in 0..(Len(hay) - Len(needle)) :
        \A j \in 1..Len(needle) : hay[k + j] = needle[j]

\* a < b for str (lexicographic by code point)
RECURSIVE LexLess(_, _)
LexLess(a, b) ==
    IF b = <<>> THEN FALSE
    ELSE IF a = <<>> THEN TRUE
    ELSE IF a[1] # b[1] THEN a[1] < b[1]
    ELSE LexLess(Tail(a), Tail(b))

\* s[:n]
Take(s, n) == IF Len(s) <= n THEN s ELSE SubSeq(s, 1, n)

\* dict.get(k, d) / entry.get(k, d)
Get(e, k, d) == IF k \in DOMAIN e THEN e[k] ELSE d

\* the empty str
Empty == <<>>

\* list.sort(key=.., reverse=..): stable; with reverse the equal keys keep
\* their original relative order too
RECURSIVE SortBy(_, _, _)
SortBy(s, field, reverse) ==
    IF s = <<>> THEN <<>>
    ELSE LET rest == SortBy(SubSeq(s, 1, Len(s) - 1), field, reverse)
             last == s[Len(s)]
             Before(y) == IF reverse
                          THEN ~ LexLess(Get(y, field, Empty), Get(last, field, Empty))
                          ELSE ~ LexLess(Get(last, field, Empty), Get(y, field, Empty))
             \* last goes after the last y that does not sort after it
             n == Cardinality({k \in 1..Len(rest) :
                                 \A j \in 1..k : Before(rest[j])})
         IN SubSeq(rest, 1, n) \o <<last>> \o SubSeq(rest, n + 1, Len(rest))

----------------------------------------------------------------------------
\* urllib.parse.urlparse on the links of the model: netloc and path.  A link
\* outside the table is one urlparse raises ValueError on.
UrlTable ==
    [u \in {"", "https://n.com/a", "http://n.com/a?x=1#f", "https://n.com/b"} |->
        CASE u = "" -> [netloc |-> "", path |-> ""]
          [] u = "https://n.com/a" -> [netloc |-> "n.com", path |-> "/a"]
          [] u = "http://n.com/a?x=1#f" -> [netloc |-> "n.com", path |-> "/a"]
          [] u = "https://n.com/b" -> [netloc |-> "n.com", path |-> "/b"]]

\* NewsCrawler.normalize_url
normalize_url(url) ==
    IF url \in DOMAIN UrlTable
    THEN UrlTable[url].netloc \o UrlTable[url].path
    ELSE url

----------------------------------------------------------------------------
\* The fetch boundary (feedparser.parse): what a feed can carry.

\* crawler.keywords (13 in the source; two of them are modelled): "A", "B"
keywords == {<<65>>, <<66>>}

\* the "전체" option of the keyword and source select boxes
All == <<51204, 52404>>

\* Raw feed entries; every field is optional.
\*   "Ab" at n.com/a, published "2" (not an RFC 822 date), source "s"
\*   "a" + summary "b" at the same host+path (other scheme, query, fragment),
\*       published "M" (stands for a well-formed RFC 822 date), source
\*       without a title
\*   no title, summary "ab", at n.com/b, no published, no source
FeedEntries ==
    { [title |-> <<65, 98>>, link |-> "https://n.com/a", published |-> <<50>>,
       source |-> [title |-> <<115>>]],
      [title |-> <<97>>, link |-> "http://n.com/a?x=1#f", published |-> <<77>>,
       summary |-> <<98>>, source |-> [href |-> "h"]],
      [link |-> "https://n.com/b", summary |-> <<97, 98>>] }

\* feed.entries: the feeds of at most MaxEntries distinct entries
Feeds ==
    UNION { { f \in [1..n -> FeedEntries] :
                \A a, b \in 1..n : a # b => f[a] # f[b] } : n \in 0..MaxEntries }

\* What feedparser.parse gives for one query: a failure (network or parse
\* error: an exception or bozo_exception, no entries) or a feed.
FetchOutcomes ==
    { [failed |-> TRUE, entries |-> <<>>] } \cup
    { [failed |-> FALSE, entries |-> f] : f \in Feeds }

----------------------------------------------------------------------------
\* TEST.py: NewsCrawler

\* the article dict search_news builds from one entry
Article(entry, keyword, now) ==
    [title |-> Get(entry, "title", Empty),
     link |-> Get(entry, "link", ""),
     published |-> Get(entry, "published", Empty),
     summary |-> Get(entry, "summary", Empty),
     source |-> IF "source" \in DOMAIN entry
                THEN Get(entry.source, "title", Empty) ELSE Empty,
     keyword |-> keyword,
     crawled_at |-> now,
     normalized_url |-> normalize_url(Get(entry, "link", ""))]

\* NewsCrawler.search_news: [] on a failure or an empty feed, else one
\* article per entry of feed.entries[:max_results]
search_news(keyword, outcome, max, now) ==
    IF outcome.failed \/ outcome.entries = <<>>
    THEN <<>>
    ELSE LET es == Take(outcome.entries, max)
         IN [k \in 1..Len(es) |-> Article(es[k], keyword, now)]

\* relevant_keywords (11 in the source; two are modelled): "ab", "ba"
relevant_keywords == {<<97, 98>>, <<98, 97>>}

\* IsRelevant without the lower(): the test becomes case-sensitive
IsRelevantCaseSensitive(article) ==
    LET title == Get(article, "title", Empty)
        summary == Get(article, "summary", Empty)
    IN \E keyword \in relevant_keywords :
          Contains(keyword, title) \/ Contains(keyword, summary)

\* the test of filter_relevant_news on one article
IsRelevant(article) ==
    LET title == Lower(Get(article, "title", Empty))
        summary == Lower(Get(article, "summary", Empty))
    IN \E keyword \in relevant_keywords :
          Contains(keyword, title) \/ Contains(keyword, summary)

\* NewsCrawler.filter_relevant_news
filter_relevant_news(articles) == SelectSeq(articles, IsRelevant)

\* AppendArticles keyed on the raw link instead of normalized_url
RECURSIVE AppendArticlesByLink(_, _, _, _)
AppendArticlesByLink(acc, seen, articles, dedup) ==
    IF articles = <<>> THEN <<acc, seen>>
    ELSE LET a == Head(articles)
         IN IF dedup /\ a.link \in seen
            THEN AppendArticlesByLink(acc, seen, Tail(articles), dedup)
            ELSE AppendArticlesByLink(Append(acc, a),
                                      IF dedup THEN seen \cup {a.link} ELSE seen,
                                      Tail(articles), dedup)

\* AppendArticles where a duplicate replaces the article accepted earlier
RECURSIVE AppendArticlesLastWins(_, _, _, _)
AppendArticlesLastWins(acc, seen, articles, dedup) ==
    IF articles = <<>> THEN <<acc, seen>>
    ELSE LET a == Head(articles)
         IN IF dedup /\ a.normalized_url \in seen
            THEN AppendArticlesLastWins(
                     [k \in 1..Len(acc) |->
                         IF acc[k].normalized_url = a.normalized_url
                         THEN a ELSE acc[k]],
                     seen, Tail(articles), dedup)
            ELSE AppendArticlesLastWins(
                     Append(acc, a),
                     IF dedup THEN seen \cup {a.normalized_url} ELSE seen,
                     Tail(articles), dedup)

\* the inner loop of main over the articles of one keyword: the pair
\* <<all_articles, seen_urls>> after it
RECURSIVE AppendArticles(_, _, _, _)
AppendArticles(acc, seen, articles, dedup) ==
    IF articles = <<>> THEN <<acc, seen>>
    ELSE LET a == Head(articles)
         IN IF dedup /\ a.normalized_url \in seen
            THEN AppendArticles(acc, seen, Tail(articles), dedup)
            ELSE AppendArticles(Append(acc, a),
                                IF dedup THEN seen \cup {a.normalized_url} ELSE seen,
                                Tail(articles), dedup)

----------------------------------------------------------------------------
\* TEST.py: main

\* st.sidebar.multiselect over crawler.keywords: any list of distinct keywords
Selections ==
    UNION { { f \in [1..n -> keywords] :
                \A a, b \in 1..n : a # b => f[a] # f[b] } :
            n \in 0..Cardinality(keywords) }

\* st.sidebar.slider(.., 10, 100, 30): the lowest value and the default
SliderValues == {10, 30}

items_per_page == 10

\* the sort select box: "최신순", "제목순", "출처순"
SortOptions == {"recency", "title", "source"}

\* the search box: empty or "A"
SearchTerms == {<<>>, <<65>>}

\* nothing rendered by the view section
NoView ==
    [status |-> "none", search_term |-> Empty, keyword_filter |-> All,
     source_filter |-> All, sort_option |-> "recency", filtered_data |-> <<>>,
     total_pages |-> 0, current_page |-> 0, page_data |-> <<>>]

NoDownload == [format |-> "none", data |-> <<>>]

\* the locals of a script run, before and after it
TestLocalsCleared ==
    /\ selected_keywords' = <<>>
    /\ filter_relevant' = TRUE
    /\ remove_duplicates' = TRUE
    /\ max_results' = 30
    /\ i' = 1
    /\ all_articles' = <<>>
    /\ seen_urls' = {}
    /\ candidates' = <<>>

Test2Unchanged == UNCHANGED <<query_input, queries, unique_articles, seen_links>>

FilterCallUnchanged == UNCHANGED <<f_articles, f_result>>

\* the button pressed with nothing selected: st.warning and return
RejectRun ==
    /\ page = "TEST" /\ pc = "idle"
    /\ notice' = "select_keywords"
    /\ view' = NoView
    /\ download' = NoDownload
    /\ UNCHANGED <<page, pc, news_data, stored, crawl_time, clock,
                   selected_keywords, filter_relevant, remove_duplicates,
                   max_results, i, all_articles, seen_urls, candidates, fetches>>
    /\ Test2Unchanged /\ FilterCallUnchanged

\* the button pressed with keywords selected: the run starts
StartRun ==
    /\ page = "TEST" /\ pc = "idle"
    /\ \E sel \in Selections \ {<<>>}, fr \in BOOLEAN, rd \in BOOLEAN,
          mr \in SliderValues :
          /\ fetches + Len(sel) <= MaxFetches
          /\ selected_keywords' = sel
          /\ filter_relevant' = fr
          /\ remove_duplicates' = rd
          /\ max_results' = mr
    /\ i' = 1
    /\ all_articles' = <<>>
    /\ seen_urls' = {}
    /\ candidates' = <<>>
    /\ clock' = clock + 1
    /\ pc' = "fetch"
    /\ notice' = "none"
    /\ view' = NoView
    /\ download' = NoDownload
    /\ UNCHANGED <<page, news_data, stored, crawl_time, fetches>>
    /\ Test2Unchanged /\ FilterCallUnchanged

\* FetchKeyword where a failed fetch ends the run: the exception is not
\* caught and the script run stops
FetchKeywordAbort ==
    /\ page = "TEST" /\ pc = "fetch"
    /\ \E outcome \in FetchOutcomes :
          LET keyword == selected_keywords[i]
              articles == search_news(keyword, outcome, max_results, clock)
              r == AppendArticles(all_articles, seen_urls, articles,
                                  remove_duplicates)
          IN /\ all_articles' = IF outcome.failed THEN <<>> ELSE r[1]
             /\ seen_urls' = r[2]
             /\ candidates' = candidates \o articles
             /\ notice' = IF outcome.failed THEN "fetch_error" ELSE "searching"
             /\ pc' = IF outcome.failed THEN "idle"
                      ELSE IF i = Len(selected_keywords) THEN "filter"
                      ELSE "fetch"
             /\ i' = IF outcome.failed THEN 1 ELSE i + 1
    /\ fetches' = fetches + 1
    /\ UNCHANGED <<page, news_data, stored, crawl_time, clock, selected_keywords,
                   filter_relevant, remove_duplicates, max_results, view,
                   download>>
    /\ Test2Unchanged /\ FilterCallUnchanged

\* FetchKeyword where the relevance filter runs on the fetched articles
\* before the duplicate test
FetchKeywordFilterFirst ==
    /\ page = "TEST" /\ pc = "fetch"
    /\ \E outcome \in FetchOutcomes :
          LET keyword == selected_keywords[i]
              articles == search_news(keyword, outcome, max_results, clock)
              r == AppendArticles(all_articles, seen_urls,
                                  IF filter_relevant
                                  THEN filter_relevant_news(articles)
                                  ELSE articles,
                                  remove_duplicates)
          IN /\ all_articles' = r[1]
             /\ seen_urls' = r[2]
             /\ candidates' = candidates \o articles
             /\ notice' = IF outcome.failed THEN "fetch_error" ELSE "searching"
    /\ fetches' = fetches + 1
    /\ i' = i + 1
    /\ pc' = IF i = Len(selected_keywords) THEN "filter" ELSE "fetch"
    /\ UNCHANGED <<page, news_data, stored, crawl_time, clock, selected_keywords,
                   filter_relevant, remove_duplicates, max_results, view,
                   download>>
    /\ Test2Unchanged /\ FilterCallUnchanged

\* one iteration of the keyword loop: search_news, then the inner loop
FetchKeyword ==
    /\ page = "TEST" /\ pc = "fetch"
    /\ \E outcome \in FetchOutcomes :
          LET keyword == selected_keywords[i]
              articles == search_news(keyword, outcome, max_results, clock)
              r == AppendArticles(all_articles, seen_urls, articles,
                                  remove_duplicates)
          IN /\ all_articles' = r[1]
             /\ seen_urls' = r[2]
             /\ candidates' = candidates \o articles
             /\ notice' = IF outcome.failed THEN "fetch_error" ELSE "searching"
    /\ fetches' = fetches + 1
    /\ i' = i + 1
    /\ pc' = IF i = Len(selected_keywords) THEN "filter" ELSE "fetch"
    /\ UNCHANGED <<page, news_data, stored, crawl_time, clock, selected_keywords,
                   filter_relevant, remove_duplicates, max_results, view,
                   download>>
    /\ Test2Unchanged /\ FilterCallUnchanged

\* after the loop: the relevance filter, then the session state is set
FinishRun ==
    /\ page = "TEST" /\ pc = "filter"
    /\ LET result == IF filter_relevant
                     THEN filter_relevant_news(all_articles)
                     ELSE all_articles
       IN /\ all_articles' = result
          /\ news_data' = result
    /\ stored' = TRUE
    /\ crawl_time' = clock
    /\ notice' = "success"
    /\ pc' = "stored"
    /\ UNCHANGED <<page, clock, selected_keywords, filter_relevant,
                   remove_duplicates, max_results, i, seen_urls, candidates,
                   fetches, view, download>>
    /\ Test2Unchanged /\ FilterCallUnchanged

\* the search, keyword and source filters of the view, on a copy
FilterView(data, search_term, keyword_filter, source_filter) ==
    LET BySearch(a) ==
            search_term = Empty
            \/ Contains(Lower(search_term), Lower(a.title))
            \/ Contains(Lower(search_term), Lower(Get(a, "summary", Empty)))
        ByKeyword(a) == keyword_filter = All \/ a.keyword = keyword_filter
        BySource(a) == source_filter = All \/ a.source = source_filter
    IN SelectSeq(SelectSeq(SelectSeq(data, BySearch), ByKeyword), BySource)

\* the sort of the view
SortView(data, sort_option) ==
    CASE sort_option = "recency" -> SortBy(data, "published", TRUE)
      [] sort_option = "title" -> SortBy(data, "title", FALSE)
      [] sort_option = "source" -> SortBy(data, "source", FALSE)

\* total_pages of the view
TotalPages(n) == (n + items_per_page - 1) \div items_per_page

\* filtered_data[start_idx:end_idx]
PageOf(data, current_page) ==
    LET start_idx == (current_page - 1) * items_per_page
        end_idx == start_idx + items_per_page
    IN IF start_idx >= Len(data) THEN <<>>
       ELSE SubSeq(data, start_idx + 1,
                   IF end_idx < Len(data) THEN end_idx ELSE Len(data))

\* filtered_data of the view section for given widget values
ViewData(data, search_term, keyword_filter, source_filter, sort_option) ==
    SortView(FilterView(data, search_term, keyword_filter, source_filter),
             sort_option)

\* a widget of the view is changed: the script reruns from the top with the
\* button not pressed, and reaches the news section
Rerun ==
    /\ page = "TEST" /\ pc = "idle"
    /\ pc' = "rerun"
    /\ notice' = "none"
    /\ view' = NoView
    /\ download' = NoDownload
    /\ UNCHANGED <<page, news_data, stored, crawl_time, clock,
                   selected_keywords, filter_relevant, remove_duplicates,
                   max_results, i, all_articles, seen_urls, candidates, fetches>>
    /\ Test2Unchanged /\ FilterCallUnchanged

\* ShowNews where filtered_data is the stored list itself, not a copy: the
\* sort reorders st.session_state['news_data']
ShowNewsInPlace ==
    /\ page = "TEST" /\ pc \in {"stored", "rerun"}
    /\ IF stored /\ news_data # <<>>
       THEN \E sort_option \in SortOptions :
               LET filtered_data == SortView(news_data, sort_option)
               IN /\ view' = [NoView EXCEPT
                                !.status = "ok",
                                !.sort_option = sort_option,
                                !.filtered_data = filtered_data,
                                !.total_pages = TotalPages(Len(filtered_data)),
                                !.current_page = 1,
                                !.page_data = PageOf(filtered_data, 1)]
                  /\ news_data' = filtered_data
       ELSE view' = NoView /\ news_data' = news_data
    /\ pc' = "idle"
    /\ download' = NoDownload
    /\ TestLocalsCleared
    /\ UNCHANGED <<page, stored, crawl_time, clock, fetches, notice>>
    /\ Test2Unchanged /\ FilterCallUnchanged

\* the rest of a script run (after a run, or on a rerun): the news section
\* is rendered when a non-empty collection is stored; the script run ends.
\* The page select box offers range(1, total_pages + 1); with total_pages = 0
\* it has no option, gives None, and line 254 raises.
ShowNews ==
    /\ page = "TEST" /\ pc \in {"stored", "rerun"}
    /\ IF stored /\ news_data # <<>>
       THEN \E search_term \in SearchTerms,
               keyword_filter \in {All} \cup
                   {news_data[k].keyword : k \in 1..Len(news_data)},
               source_filter \in {All} \cup
                   ({news_data[k].source : k \in 1..Len(news_data)} \ {Empty}),
               sort_option \in SortOptions :
               LET filtered_data == ViewData(news_data, search_term,
                                             keyword_filter, source_filter,
                                             sort_option)
                   total_pages == TotalPages(Len(filtered_data))
                   shown == [status |-> "ok", search_term |-> search_term,
                             keyword_filter |-> keyword_filter,
                             source_filter |-> source_filter,
                             sort_option |-> sort_option,
                             filtered_data |-> filtered_data,
                             total_pages |-> total_pages,
                             current_page |-> 0, page_data |-> <<>>]
               IN IF total_pages = 0
                  THEN view' = [shown EXCEPT !.status = "error"]
                  ELSE \E current_page \in 1..total_pages :
                          view' = [shown EXCEPT
                                     !.current_page = current_page,
                                     !.page_data = PageOf(filtered_data,
                                                          current_page)]
       ELSE view' = NoView
    /\ pc' = "idle"
    /\ download' = NoDownload
    /\ TestLocalsCleared
    /\ UNCHANGED <<page, news_data, stored, crawl_time, clock, fetches, notice>>
    /\ Test2Unchanged /\ FilterCallUnchanged

\* one of the three download buttons, on the rendered view
Export ==
    /\ page = "TEST" /\ pc = "idle" /\ view.status = "ok"
    /\ \E format \in {"json", "csv", "xlsx"} :
          download' = [format |-> format, data |-> view.filtered_data]
    /\ UNCHANGED <<page, pc, news_data, stored, crawl_time, clock,
                   selected_keywords, filter_relevant, remove_duplicates,
                   max_results, i, all_articles, seen_urls, candidates, fetches,
                   notice, view>>
    /\ Test2Unchanged /\ FilterCallUnchanged

TestNext ==
    RejectRun \/ StartRun \/ FetchKeyword \/ FinishRun \/ Rerun \/ ShowNews \/ Export

----------------------------------------------------------------------------
\* PAGES/TEST2.py

\* str.split(","): the pieces between the commas (code point 44)
RECURSIVE Split(_)
Split(s) ==
    IF \A k \in 1..Len(s) : s[k] # 44 THEN <<s>>
    ELSE LET c == CHOOSE k \in 1..Len(s) :
                      s[k] = 44 /\ \A j \in 1..(k - 1) : s[j] # 44
         IN <<SubSeq(s, 1, c - 1)>> \o Split(SubSeq(s, c + 1, Len(s)))

\* str.strip(): leading and trailing blanks (code point 32) removed
RECURSIVE Strip(_)
Strip(s) ==
    IF s = <<>> THEN s
    ELSE IF s[1] = 32 THEN Strip(Tail(s))
    ELSE IF s[Len(s)] = 32 THEN Strip(SubSeq(s, 1, Len(s) - 1))
    ELSE s

\* [q.strip() for q in query_input.split(",")]
Queries(text) == LET parts == Split(text)
                 IN [k \in 1..Len(parts) |-> Strip(parts[k])]

\* the keyword box: "", " ", "k", "k,", "k, r"
QueryInputs ==
    {<<>>, <<32>>, <<107>>, <<107, 44>>, <<107, 44, 32, 114>>}

\* st.slider("쿼리당 최대 기사 수", 5, 50, 20): left at its default
max_articles == 20

\* datetime.strptime(.., '%a, %d %b %Y %H:%M:%S %Z').strftime('%Y-%m-%d
\* %H:%M:%S') on the published values of the model: "M" stands for a
\* well-formed date and is rewritten as "20"; on any other text strptime
\* raises ValueError
Reformatted == [s \in {<<77>>} |-> <<50, 48>>]

\* the article dict crawl_news_articles builds from one entry that has a
\* published field
Article2(entry) ==
    [title |-> Get(entry, "title", Empty),
     link |-> Get(entry, "link", ""),
     published |-> Get(entry, "published", Empty),
     summary |-> Get(entry, "summary", Empty),
     source |-> IF "source" \in DOMAIN entry
                THEN Get(entry.source, "title", Empty) ELSE Empty,
     media_url |-> IF "media_content" \in DOMAIN entry
                   THEN Get(entry.media_content[1], "url", "") ELSE "",
     published_date |-> IF entry.published \in DOMAIN Reformatted
                        THEN Reformatted[entry.published]
                        ELSE entry.published]

\* crawl_news_articles: [] when the feed reports an error; otherwise one
\* article per entry of feed.entries[:max_articles].  entry.published of an
\* entry without that field raises AttributeError, which `except ValueError`
\* does not catch: the call raises.
crawl_news_articles(outcome, max) ==
    IF outcome.failed
    THEN [raised |-> FALSE, articles |-> <<>>]
    ELSE LET es == Take(outcome.entries, max)
         IN IF \E k \in 1..Len(es) : "published" \notin DOMAIN es[k]
            THEN [raised |-> TRUE, articles |-> <<>>]
            ELSE [raised |-> FALSE,
                  articles |-> [k \in 1..Len(es) |-> Article2(es[k])]]

\* the loop of main over all_articles that keeps the first article of each
\* link: the pair <<unique_articles, seen_links>> after it
RECURSIVE UniqueByLink(_, _, _)
UniqueByLink(acc, seen, articles) ==
    IF articles = <<>> THEN <<acc, seen>>
    ELSE LET a == Head(articles)
         IN IF a.link \notin seen
            THEN UniqueByLink(Append(acc, a), seen \cup {a.link}, Tail(articles))
            ELSE UniqueByLink(acc, seen, Tail(articles))

TestUnchanged ==
    UNCHANGED <<news_data, stored, crawl_time, clock, selected_keywords,
                filter_relevant, remove_duplicates, max_results, seen_urls,
                candidates, view>>

\* the button pressed: the text is split, the loop starts
StartCrawl ==
    /\ page = "TEST2" /\ pc \in {"idle", "done", "crashed"}
    /\ \E text \in QueryInputs :
          /\ fetches + Len(Queries(text)) <= MaxFetches
          /\ query_input' = text
          /\ queries' = Queries(text)
    /\ i' = 1
    /\ all_articles' = <<>>
    /\ unique_articles' = <<>>
    /\ seen_links' = {}
    /\ notice' = "none"
    /\ download' = NoDownload
    /\ pc' = "crawl"
    /\ UNCHANGED <<page, fetches>>
    /\ TestUnchanged /\ FilterCallUnchanged

\* one iteration of the query loop: crawl_news_articles, then extend; an
\* exception raised by the call ends the script run
CrawlQuery ==
    /\ page = "TEST2" /\ pc = "crawl"
    /\ \E outcome \in FetchOutcomes :
          LET r == crawl_news_articles(outcome, max_articles)
          IN IF r.raised
             THEN /\ pc' = "crashed"
                  /\ notice' = "exception"
                  /\ i' = 1
                  /\ all_articles' = <<>>
                  /\ queries' = <<>>
             ELSE /\ pc' = IF i = Len(queries) THEN "dedup" ELSE "crawl"
                  /\ notice' = IF outcome.failed THEN "fetch_error"
                               ELSE "collected"
                  /\ i' = i + 1
                  /\ all_articles' = all_articles \o r.articles
                  /\ queries' = queries
    /\ fetches' = fetches + 1
    /\ UNCHANGED <<page, query_input, unique_articles, seen_links, download>>
    /\ TestUnchanged /\ FilterCallUnchanged

\* after the loop: duplicates removed, then the table and the JSON file, or
\* the warning that nothing was collected
FinishCrawl ==
    /\ page = "TEST2" /\ pc = "dedup"
    /\ LET r == UniqueByLink(<<>>, {}, all_articles)
       IN /\ unique_articles' = r[1]
          /\ seen_links' = r[2]
          /\ download' = IF r[1] # <<>>
                         THEN [format |-> "json", data |-> r[1]]
                         ELSE NoDownload
          /\ notice' = IF r[1] # <<>> THEN "success" ELSE "no_articles"
    /\ pc' = "done"
    /\ UNCHANGED <<page, query_input, queries, i, all_articles, fetches>>
    /\ TestUnchanged /\ FilterCallUnchanged

Test2Next == StartCrawl \/ CrawlQuery \/ FinishCrawl

----------------------------------------------------------------------------
Init ==
    /\ page \in {"TEST", "TEST2"}
    /\ pc = "idle"
    /\ news_data = <<>>
    /\ stored = FALSE
    /\ crawl_time = 0
    /\ clock = 0
    /\ selected_keywords = <<>>
    /\ filter_relevant = TRUE
    /\ remove_duplicates = TRUE
    /\ max_results = 30
    /\ i = 1
    /\ all_articles = <<>>
    /\ seen_urls = {}
    /\ candidates = <<>>
    /\ fetches = 0
    /\ notice = "none"
    /\ view = NoView
    /\ download = NoDownload
    /\ query_input = <<>>
    /\ queries = <<>>
    /\ unique_articles = <<>>
    /\ seen_links = {}
    /\ f_articles = <<>>
    /\ f_result = <<>>

Next == TestNext \/ Test2Next

Spec == Init /\ [][Next]_vars

----------------------------------------------------------------------------
\* filter_relevant_news as a function: called once on a list of article
\* dicts whose title and summary are optional.

\* titles: "", "a", "Ab", "b"; summaries: none, "", "b", "BA"
FilterArticles ==
    { [title |-> t] : t \in {<<>>, <<97>>, <<65, 98>>, <<98>>} } \cup
    { [title |-> t, summary |-> m] :
        t \in {<<>>, <<97>>, <<65, 98>>, <<98>>},
        m \in {<<>>, <<98>>, <<66, 65>>} }

FilterInputs == UNION { [1..n -> FilterArticles] : n \in 0..MaxArticles }

InitFilter ==
    /\ page = "FILTER"
    /\ pc = "idle"
    /\ news_data = <<>>
    /\ stored = FALSE
    /\ crawl_time = 0
    /\ clock = 0
    /\ selected_keywords = <<>>
    /\ filter_relevant = TRUE
    /\ remove_duplicates = TRUE
    /\ max_results = 30
    /\ i = 1
    /\ all_articles = <<>>
    /\ seen_urls = {}
    /\ candidates = <<>>
    /\ fetches = 0
    /\ notice = "none"
    /\ view = NoView
    /\ download = NoDownload
    /\ query_input = <<>>
    /\ queries = <<>>
    /\ unique_articles = <<>>
    /\ seen_links = {}
    /\ f_articles \in FilterInputs
    /\ f_result = <<>>

CallFilter ==
    /\ page = "FILTER" /\ pc = "idle"
    /\ f_result' = filter_relevant_news(f_articles)
    /\ pc' = "done"
    /\ UNCHANGED <<page, news_data, stored, crawl_time, clock,
                   selected_keywords, filter_relevant, remove_duplicates,
                   max_results, i, all_articles, seen_urls, candidates, fetches,
                   notice, view, download, f_articles>>
    /\ Test2Unchanged

NextFilter == CallFilter

SpecFilter == InitFilter /\ [][NextFilter]_vars

----------------------------------------------------------------------------
\* Properties.

\* the end of a run of TEST.py: the session state is set, the locals of the
\* run are still there
RunStored == page = "TEST" /\ pc = "stored"

\* two candidates of the run with the same normalized_url
DuplicateFetched ==
    \E a, b \in 1..Len(candidates) :
        a < b /\ candidates[a].normalized_url = candidates[b].normalized_url

\* the n-th smallest element of a set of numbers
Nth(S, n) == CHOOSE k \in S : Cardinality({m \in S : m <= k}) = n

\* the elements of s at the positions in S, in order
Restrict(s, S) == [n \in 1..Cardinality(S) |-> s[Nth(S, n)]]

\* C1: at the end of every run with 'remove duplicates' enabled (relevance
\* filter on or off) the stored collection holds no two articles with equal
\* normalized_url.
C1_NoDuplicateUrls ==
    (RunStored /\ remove_duplicates) =>
        \A a, b \in 1..Len(news_data) :
            a # b => news_data[a].normalized_url # news_data[b].normalized_url

\* C1 witness: a run with dedup on and the filter off fetched a duplicate and
\* stored two articles.
C1_Witness ==
    /\ RunStored /\ remove_duplicates /\ ~filter_relevant
    /\ DuplicateFetched
    /\ Len(news_data) = 2

\* C2: with dedup enabled every stored article is the first candidate, in
\* fetch order, with its normalized_url: it carries that candidate's keyword
\* and is that candidate unchanged.
C2_FirstWins ==
    (RunStored /\ remove_duplicates) =>
        \A k \in 1..Len(news_data) :
            /\ \E c \in 1..Len(candidates) :
                  candidates[c].normalized_url = news_data[k].normalized_url
            /\ LET first == CHOOSE c \in 1..Len(candidates) :
                      /\ candidates[c].normalized_url = news_data[k].normalized_url
                      /\ \A d \in 1..(c - 1) :
                            candidates[d].normalized_url
                                # news_data[k].normalized_url
               IN /\ news_data[k].keyword = candidates[first].keyword
                  /\ news_data[k] = candidates[first]

\* C2 witness: two keywords returned the same normalized_url and an article
\* with it is stored.
C2_Witness ==
    /\ RunStored /\ remove_duplicates
    /\ \E a, b \in 1..Len(candidates) :
          /\ a < b
          /\ candidates[a].normalized_url = candidates[b].normalized_url
          /\ candidates[a].keyword # candidates[b].keyword
          /\ \E k \in 1..Len(news_data) :
                news_data[k].normalized_url = candidates[a].normalized_url

\* ceil(n / d)
CeilDiv(n, d) == CHOOSE p \in 0..n : p * d >= n /\ (p = 0 \/ (p - 1) * d < n)

\* C3: whenever the news section has computed a page count, total_pages is
\* max(1, ceil(n / page_size)) for the filtered result of size n.
C3_TotalPagesAtLeastOne ==
    view.status # "none" =>
        LET n == Len(view.filtered_data)
            c == CeilDiv(n, items_per_page)
        IN view.total_pages = IF c < 1 THEN 1 ELSE c

NoKeywordsChosen ==
    \/ page = "TEST" /\ selected_keywords = <<>>
    \/ page = "TEST2" /\ Strip(query_input) = Empty

\* C5: with no keywords chosen no fetch of a run is issued: the loop position
\* stays at the first keyword and the run is not in progress.
C5_NoFetchWithoutKeywords ==
    NoKeywordsChosen => (i = 1 /\ pc \notin {"fetch", "filter", "dedup"})

\* a term occurs in the lower-cased text
Occurs(term, text) ==
    \E a \in 1..(Len(text) + 1), b \in 0..Len(text) :
        SubSeq(Lower(text), a, b) = term

\* the positions of f_articles the claim keeps: a term occurs in title + summary
KeptByConcatenation ==
    {k \in 1..Len(f_articles) :
        \E term \in relevant_keywords :
            Occurs(term, Get(f_articles[k], "title", Empty)
                         \o Get(f_articles[k], "summary", Empty))}

\* the positions of f_articles kept when a term occurs in the title or in
\* the summary
KeptByField ==
    {k \in 1..Len(f_articles) :
        \E term \in relevant_keywords :
            \/ Occurs(term, Get(f_articles[k], "title", Empty))
            \/ Occurs(term, Get(f_articles[k], "summary", Empty))}

\* C6 as stated: the result is the articles in which a term occurs,
\* case-insensitively, in the concatenation of title and summary, in input
\* order and unchanged.
C6_KeepsByConcatenation ==
    (page = "FILTER" /\ pc = "done") =>
        f_result = Restrict(f_articles, KeptByConcatenation)

\* C6 amended: the result is the articles in which a term occurs,
\* case-insensitively, in the title or in the summary, in input order and
\* unchanged.
C6_KeepsByField ==
    (page = "FILTER" /\ pc = "done") =>
        f_result = Restrict(f_articles, KeptByField)

\* C6 witness: of two articles the first matches only after lower-casing and
\* is kept, the second is dropped.
C6_Witness ==
    /\ page = "FILTER" /\ pc = "done"
    /\ Len(f_articles) = 2 /\ Len(f_result) = 1
    /\ f_result[1] = f_articles[1]
    /\ f_articles[1].title = <<65, 98>>

\* C7: the stored collection changes only in the last step of a run, where it
\* becomes the list the run built; fetch steps, view renderings, reruns and
\* exports leave it as it is.
C7_StoredOnlyAtRunEnd ==
    [][(news_data' # news_data \/ stored' # stored) =>
          /\ pc = "filter" /\ pc' = "stored"
          /\ stored'
          /\ news_data' = all_articles']_vars

\* C7 witness: a run has accepted articles and not yet stored them, while the
\* different collection of the previous run is still stored.
C7_Witness ==
    /\ page = "TEST" /\ pc = "filter" /\ ~filter_relevant
    /\ stored /\ news_data # <<>>
    /\ all_articles # <<>> /\ all_articles # news_data

\* the candidates the dedup step accepts and the filter keeps
KeptCandidates ==
    {k \in 1..Len(candidates) :
        /\ \A j \in 1..(k - 1) :
              candidates[j].normalized_url # candidates[k].normalized_url
        /\ IsRelevant(candidates[k])}

\* dedup, then the filter, decided candidate by candidate
RECURSIVE PerCandidate(_, _, _)
PerCandidate(acc, seen, cands) ==
    IF cands = <<>> THEN acc
    ELSE LET c == Head(cands)
         IN IF c.normalized_url \in seen
            THEN PerCandidate(acc, seen, Tail(cands))
            ELSE PerCandidate(IF IsRelevant(c) THEN Append(acc, c) ELSE acc,
                              seen \cup {c.normalized_url}, Tail(cands))

\* C8: with dedup and filter enabled the stored collection is the candidates,
\* in fetch order, that no earlier candidate shares the normalized_url of and
\* that pass the filter; deciding both candidate by candidate gives the same.
C8_DedupThenFilter ==
    (RunStored /\ remove_duplicates /\ filter_relevant) =>
        /\ news_data = Restrict(candidates, KeptCandidates)
        /\ news_data = PerCandidate(<<>>, {}, candidates)

\* C8 witness: a relevant candidate was skipped as the duplicate of an
\* earlier one that the filter then dropped, and something was stored.
C8_Witness ==
    /\ RunStored /\ remove_duplicates /\ filter_relevant
    /\ news_data # <<>>
    /\ \E a, b \in 1..Len(candidates) :
          /\ a < b
          /\ candidates[a].normalized_url = candidates[b].normalized_url
          /\ ~IsRelevant(candidates[a]) /\ IsRelevant(candidates[b])

\* C9: mapping a feed entry to an article raises no error, whatever fields
\* the entry lacks: no script run ends in an exception.
C9_MappingTotal == pc # "crashed" /\ notice # "exception"

\* C10: the unique articles of TEST2.py hold no two links with the same
\* host+path.
C10_UniqueByHostPath ==
    (page = "TEST2" /\ pc = "done") =>
        \A a, b \in 1..Len(unique_articles) :
            a # b => normalize_url(unique_articles[a].link)
                       # normalize_url(unique_articles[b].link)

====
